---- MODULE Spec2Model ----
(***************************************************************************)
(* A model of src/src/crypto.ts: the base64 codec, the RSA-OAEP key        *)
(* manager, the AES-CBC key manager and the module-level IV they share.    *)
(*                                                                         *)
(* Bytes are the integers 0..255, buffers are sequences of bytes, base64   *)
(* text is a sequence of one-character strings and a JavaScript string is  *)
(* a sequence of UTF-16 code units.  The library calls the source makes    *)
(* (Buffer.from, TextEncoder, TextDecoder, webcrypto.subtle) are modelled  *)
(* by what they compute.  The AES block permutation and the RSA trapdoor   *)
(* are replaced by small keyed permutations on bytes; the padding, the     *)
(* chaining with the IV, the length limits and the usage checks around     *)
(* them are the real ones.                                                 *)
(***************************************************************************)
EXTENDS Integers, Sequences, FiniteSets, TLC

VARIABLES iv, wire, last

vars == <<iv, wire, last>>

(***************************************************************************)
(* Bytes                                                                   *)
(***************************************************************************)
Bit(a, i) == (a \div (2 ^ i)) % 2

\* a ^ b on 4-bit values, bit by bit
XorNibble ==
    [a \in 0..15 |-> [b \in 0..15 |->
        ((Bit(a, 0) + Bit(b, 0)) % 2)
        + 2 * ((Bit(a, 1) + Bit(b, 1)) % 2)
        + 4 * ((Bit(a, 2) + Bit(b, 2)) % 2)
        + 8 * ((Bit(a, 3) + Bit(b, 3)) % 2)]]

\* a ^ b on bytes
Xor(a, b) == 16 * XorNibble[a \div 16][b \div 16] + XorNibble[a % 16][b % 16]

XorSeq(a, b) == [i \in 1..Len(a) |-> Xor(a[i], b[i])]

Fill(n, b) == [i \in 1..n |-> b]

\* the sequences over S of length at most n
RECURSIVE SeqsUpTo(_, _)
SeqsUpTo(S, n) ==
    IF n = 0 THEN {<<>>}
    ELSE LET shorter == SeqsUpTo(S, n - 1)
         IN  shorter \cup {Append(s, x) : s \in {t \in shorter : Len(t) = n - 1}, x \in S}

(***************************************************************************)
(* Results of a call: a value, or the name of the exception thrown.        *)
(***************************************************************************)
Ok(v) == [ok |-> TRUE, absent |-> FALSE, val |-> v, err |-> ""]

\* a call that returns null
Absent == [ok |-> TRUE, absent |-> TRUE, val |-> <<>>, err |-> ""]

Throw(e) == [ok |-> FALSE, absent |-> FALSE, val |-> <<>>, err |-> e]

(***************************************************************************)
(* Utils: base64 (Buffer's "base64" encoding)                              *)
(***************************************************************************)
Alphabet ==
    << "A", "B", "C", "D", "E", "F", "G", "H", "I", "J", "K", "L", "M",
       "N", "O", "P", "Q", "R", "S", "T", "U", "V", "W", "X", "Y", "Z",
       "a", "b", "c", "d", "e", "f", "g", "h", "i", "j", "k", "l", "m",
       "n", "o", "p", "q", "r", "s", "t", "u", "v", "w", "x", "y", "z",
       "0", "1", "2", "3", "4", "5", "6", "7", "8", "9", "+", "/" >>

\* Buffer.prototype.toString("base64"): standard alphabet, "=" padding; every
\* 3 bytes give 4 characters, a last group of 1 or 2 bytes is padded to 4
BufferToString(b) ==
    LET n == Len(b)
        byte(j) == IF j <= n THEN b[j] ELSE 0
        c(v) == Alphabet[v + 1]
        char(k) ==
            LET g == (k - 1) \div 4
                r == (k - 1) % 4
                b1 == byte(3 * g + 1)
                b2 == byte(3 * g + 2)
                b3 == byte(3 * g + 3)
            IN  IF r = 0 THEN c(b1 \div 4)
                ELSE IF r = 1 THEN c((b1 % 4) * 16 + b2 \div 16)
                ELSE IF r = 2 THEN
                    (IF 3 * g + 2 > n THEN "=" ELSE c((b2 % 16) * 4 + b3 \div 64))
                ELSE (IF 3 * g + 3 > n THEN "=" ELSE c(b3 % 64))
    IN  [k \in 1..(4 * ((n + 2) \div 3)) |-> char(k)]

\* the value of each base64 character; Buffer also reads the URL-safe "-", "_"
Unbase64Table ==
    [c \in {Alphabet[i] : i \in 1..64} \cup {"-", "_"} |->
        IF c = "-" THEN 62
        ELSE IF c = "_" THEN 63
        ELSE (CHOOSE i \in 1..64 : Alphabet[i] = c) - 1]

\* the value of a character, 64 for a character that has none
unbase64(c) == IF c \in DOMAIN Unbase64Table THEN Unbase64Table[c] ELSE 64

\* the place of the first "=" of a text, Len(text) + 1 if there is none
FirstPad(text) ==
    IF \E i \in 1..Len(text) : text[i] = "="
    THEN CHOOSE i \in 1..Len(text) :
            text[i] = "=" /\ \A j \in 1..(i - 1) : text[j] # "="
    ELSE Len(text) + 1

HasValue(c) == unbase64(c) < 64

\* the 6-bit values Buffer's decoder reads from a text: a character with no
\* value is skipped, "=" ends the decoding
Sextets(text) ==
    LET read == SelectSeq(SubSeq(text, 1, FirstPad(text) - 1), HasValue)
    IN  [i \in 1..Len(read) |-> unbase64(read[i])]

\* the bytes of a run of 6-bit values: 4 values give 3 bytes, a rest of 2
\* gives 1 byte, a rest of 3 gives 2, a rest of 1 gives none
SextetsToBytes(s) ==
    LET n == Len(s)
        rest == n % 4
        count == (n \div 4) * 3 + (IF rest = 2 THEN 1 ELSE IF rest = 3 THEN 2 ELSE 0)
        byte(j) ==
            LET g == 4 * ((j - 1) \div 3)
                r == (j - 1) % 3
            IN  IF r = 0 THEN s[g + 1] * 4 + s[g + 2] \div 16
                ELSE IF r = 1 THEN (s[g + 2] % 16) * 16 + s[g + 3] \div 4
                ELSE (s[g + 3] % 4) * 64 + s[g + 4]
    IN  [j \in 1..count |-> byte(j)]

\* what precedes a small Buffer in the allocation pool it is carved from
PoolPrefix == <<222, 173, 190, 239, 0, 0, 0, 0>>

\* Buffer.from(base64, "base64"): never throws; a view on the pool
BufferFrom(base64) ==
    LET bytes == SextetsToBytes(Sextets(base64))
    IN  [buffer |-> PoolPrefix \o bytes \o <<0, 0, 0, 0>>,
         byteOffset |-> Len(PoolPrefix),
         byteLength |-> Len(bytes)]

\* ArrayBuffer.prototype.slice(begin, end)
Slice(buffer, begin, end) == SubSeq(buffer, begin + 1, end)

arrayBufferToBase64(buffer) == BufferToString(buffer)

\* the decoder without the slice: the whole pool behind the view
base64ToArrayBuffer_WholePool(base64) == BufferFrom(base64).buffer

base64ToArrayBuffer(base64) ==
    LET buff == BufferFrom(base64)
    IN  Slice(buff.buffer, buff.byteOffset, buff.byteOffset + buff.byteLength)

\* standard base64 with padding: the alphabet, a length that is a multiple of
\* four, and "=" only as the last one or two characters
IsAlphabetChar(c) == c \in DOMAIN Unbase64Table /\ c \notin {"-", "_"}

ValidBase64(text) ==
    LET n == Len(text)
        pad == IF n >= 2 /\ text[n] = "=" /\ text[n - 1] = "=" THEN 2
               ELSE IF n >= 1 /\ text[n] = "=" THEN 1 ELSE 0
    IN  /\ n % 4 = 0
        /\ \A i \in 1..(n - pad) : IsAlphabetChar(text[i])

(***************************************************************************)
(* Text: TextEncoder.encode and TextDecoder.decode (UTF-8)                 *)
(***************************************************************************)
IsHighSurrogate(u) == u >= 55296 /\ u <= 56319

IsLowSurrogate(u) == u >= 56320 /\ u <= 57343

ReplacementChar == <<65533>>

ByteOrderMark == <<65279>>

\* a string whose surrogates all come in pairs
RECURSIVE WellFormed(_)
WellFormed(s) ==
    IF Len(s) = 0 THEN TRUE
    ELSE IF IsHighSurrogate(s[1])
         THEN Len(s) >= 2 /\ IsLowSurrogate(s[2]) /\ WellFormed(SubSeq(s, 3, Len(s)))
         ELSE ~IsLowSurrogate(s[1]) /\ WellFormed(Tail(s))

\* the code points of a string; an unpaired surrogate reads as U+FFFD
RECURSIVE CodePoints(_)
CodePoints(s) ==
    IF Len(s) = 0 THEN <<>>
    ELSE IF IsHighSurrogate(s[1]) /\ Len(s) >= 2 /\ IsLowSurrogate(s[2])
         THEN <<65536 + (s[1] - 55296) * 1024 + (s[2] - 56320)>>
              \o CodePoints(SubSeq(s, 3, Len(s)))
    ELSE IF IsHighSurrogate(s[1]) \/ IsLowSurrogate(s[1])
         THEN ReplacementChar \o CodePoints(Tail(s))
         ELSE <<s[1]>> \o CodePoints(Tail(s))

\* the code units of a code point
CodeUnits(cp) ==
    IF cp < 65536 THEN <<cp>>
    ELSE <<55296 + (cp - 65536) \div 1024, 56320 + ((cp - 65536) % 1024)>>

Utf8Bytes(cp) ==
    IF cp < 128 THEN <<cp>>
    ELSE IF cp < 2048 THEN <<192 + cp \div 64, 128 + (cp % 64)>>
    ELSE IF cp < 65536 THEN
        <<224 + cp \div 4096, 128 + ((cp \div 64) % 64), 128 + (cp % 64)>>
    ELSE <<240 + cp \div 262144, 128 + ((cp \div 4096) % 64),
           128 + ((cp \div 64) % 64), 128 + (cp % 64)>>

RECURSIVE EncodeCodePoints(_)
EncodeCodePoints(cps) ==
    IF Len(cps) = 0 THEN <<>>
    ELSE Utf8Bytes(cps[1]) \o EncodeCodePoints(Tail(cps))

\* new TextEncoder().encode(data)
TextEncode(data) == EncodeCodePoints(CodePoints(data))

\* The UTF-8 decoder, not fatal: the code points of bytes[i..], with `needed`
\* continuation bytes awaited, `seen` of them read into cp, and the next one
\* expected in lower..upper.  A byte that cannot continue a sequence ends it
\* with U+FFFD and is read again as a first byte.
RECURSIVE Utf8Decode(_, _, _, _, _, _, _)
Utf8Decode(bytes, i, needed, seen, cp, lower, upper) ==
    IF i > Len(bytes) THEN (IF needed # 0 THEN ReplacementChar ELSE <<>>)
    ELSE LET b == bytes[i] IN
         IF needed = 0 THEN
            IF b <= 127 THEN <<b>> \o Utf8Decode(bytes, i + 1, 0, 0, 0, 128, 191)
            ELSE IF b >= 194 /\ b <= 223 THEN
                Utf8Decode(bytes, i + 1, 1, 0, b % 32, 128, 191)
            ELSE IF b >= 224 /\ b <= 239 THEN
                Utf8Decode(bytes, i + 1, 2, 0, b % 16,
                           IF b = 224 THEN 160 ELSE 128,
                           IF b = 237 THEN 159 ELSE 191)
            ELSE IF b >= 240 /\ b <= 244 THEN
                Utf8Decode(bytes, i + 1, 3, 0, b % 8,
                           IF b = 240 THEN 144 ELSE 128,
                           IF b = 244 THEN 143 ELSE 191)
            ELSE ReplacementChar \o Utf8Decode(bytes, i + 1, 0, 0, 0, 128, 191)
         ELSE IF b < lower \/ b > upper THEN
            ReplacementChar \o Utf8Decode(bytes, i, 0, 0, 0, 128, 191)
         ELSE IF seen + 1 = needed THEN
            <<cp * 64 + (b % 64)>> \o Utf8Decode(bytes, i + 1, 0, 0, 0, 128, 191)
         ELSE Utf8Decode(bytes, i + 1, needed, seen + 1, cp * 64 + (b % 64), 128, 191)

RECURSIVE ToCodeUnits(_)
ToCodeUnits(cps) ==
    IF Len(cps) = 0 THEN <<>>
    ELSE CodeUnits(cps[1]) \o ToCodeUnits(Tail(cps))

\* new TextDecoder().decode(bytes): utf-8, fatal = false, ignoreBOM = false, so
\* malformed bytes decode to U+FFFD and a leading U+FEFF is not part of the
\* result
TextDecode(bytes) ==
    LET cps == Utf8Decode(bytes, 1, 0, 0, 0, 128, 191)
    IN  ToCodeUnits(IF Len(cps) > 0 /\ <<cps[1]>> = ByteOrderMark
                    THEN Tail(cps) ELSE cps)

(***************************************************************************)
(* CryptoKey handles                                                       *)
(***************************************************************************)
CryptoKey(type, name, length, extractable, usages, material) ==
    [type |-> type, name |-> name, length |-> length,
     extractable |-> extractable, usages |-> usages, material |-> material]

\* the null a caller may pass where a key is expected
NullKey == CryptoKey("null", "", 0, FALSE, {}, <<>>)

(***************************************************************************)
(* webcrypto.subtle, AES-CBC                                               *)
(***************************************************************************)
IvLength == 16

AesBlockBytes == 16

AesKeyLength == 256

AesKeyLengths == {128, 192, 256}

\* The block permutation under a key, and its inverse.  It stands for the AES
\* block cipher: a permutation of the 16-byte blocks chosen by the key.
RoundKey(material) ==
    [i \in 1..AesBlockBytes |->
        (material[i] + material[Len(material) + 1 - i]) % 256]

BlockEncrypt(material, block) ==
    LET rk == RoundKey(material)
    IN  [i \in 1..AesBlockBytes |-> (block[i] + rk[i]) % 256]

BlockDecrypt(material, block) ==
    LET rk == RoundKey(material)
    IN  [i \in 1..AesBlockBytes |-> (block[i] + 256 - rk[i]) % 256]

\* PKCS#7: 1 to 16 bytes, each the number of bytes added
Pkcs7Pad(data) ==
    LET n == AesBlockBytes - (Len(data) % AesBlockBytes)
    IN  data \o Fill(n, n)

Pkcs7Valid(padded) ==
    LET n == padded[Len(padded)]
    IN  /\ n >= 1
        /\ n <= AesBlockBytes
        /\ \A i \in (Len(padded) - n + 1)..Len(padded) : padded[i] = n

Pkcs7Unpad(padded) == SubSeq(padded, 1, Len(padded) - padded[Len(padded)])

\* cipher block chaining: each block is xored with the previous ciphertext
\* block, the first one with the IV
RECURSIVE CbcEncrypt(_, _, _)
CbcEncrypt(material, chain, padded) ==
    IF Len(padded) = 0 THEN <<>>
    ELSE LET c == BlockEncrypt(material,
                               XorSeq(SubSeq(padded, 1, AesBlockBytes), chain))
         IN  c \o CbcEncrypt(material, c,
                             SubSeq(padded, AesBlockBytes + 1, Len(padded)))

RECURSIVE CbcDecrypt(_, _, _)
CbcDecrypt(material, chain, data) ==
    IF Len(data) = 0 THEN <<>>
    ELSE LET c == SubSeq(data, 1, AesBlockBytes)
         IN  XorSeq(BlockDecrypt(material, c), chain)
             \o CbcDecrypt(material, c, SubSeq(data, AesBlockBytes + 1, Len(data)))

\* subtle.generateKey({name: "AES-CBC", length}, extractable, usages), with the
\* random key bytes it draws
SubtleGenerateAesKey(length, extractable, usages, material) ==
    Ok(CryptoKey("secret", "AES-CBC", length, extractable, usages, material))

\* an import that takes key bytes of any length
SubtleImportRaw_AnyLength(keyData, extractable, usages) ==
    Ok(CryptoKey("secret", "AES-CBC", Len(keyData) * 8, extractable, usages, keyData))

\* subtle.importKey("raw", keyData, {name: "AES-CBC"}, extractable, usages)
SubtleImportRaw(keyData, extractable, usages) ==
    IF Len(keyData) * 8 \notin AesKeyLengths THEN Throw("DataError")
    ELSE Ok(CryptoKey("secret", "AES-CBC", Len(keyData) * 8, extractable, usages, keyData))

\* subtle.exportKey("raw", key)
SubtleExportRaw(key) ==
    IF ~key.extractable THEN Throw("InvalidAccessError")
    ELSE IF key.type # "secret" THEN Throw("InvalidAccessError")
    ELSE Ok(key.material)

\* subtle.encrypt({name: "AES-CBC", iv}, key, data)
SubtleEncryptAesCbc(ivBytes, key, data) ==
    IF key.name # "AES-CBC" \/ "encrypt" \notin key.usages
    THEN Throw("InvalidAccessError")
    ELSE IF Len(ivBytes) # IvLength THEN Throw("OperationError")
    ELSE Ok(CbcEncrypt(key.material, ivBytes, Pkcs7Pad(data)))

\* subtle.decrypt({name: "AES-CBC", iv}, key, data)
SubtleDecryptAesCbc(ivBytes, key, data) ==
    IF key.name # "AES-CBC" \/ "decrypt" \notin key.usages
    THEN Throw("InvalidAccessError")
    ELSE IF Len(ivBytes) # IvLength THEN Throw("OperationError")
    ELSE IF Len(data) = 0 \/ Len(data) % AesBlockBytes # 0 THEN Throw("OperationError")
    ELSE LET padded == CbcDecrypt(key.material, ivBytes, data)
         IN  IF Pkcs7Valid(padded) THEN Ok(Pkcs7Unpad(padded))
             ELSE Throw("OperationError")

(***************************************************************************)
(* webcrypto.subtle, RSA-OAEP                                              *)
(***************************************************************************)
ModulusLength == 2048

HashLength == 256

ModulusBytes == ModulusLength \div 8

HashBytes == HashLength \div 8

\* the longest message OAEP takes under this modulus and hash: 190 bytes
MaxOaepPayload == ModulusBytes - 2 * HashBytes - 2

\* the hash of the empty label, the same in every message
LabelHash == Fill(HashBytes, 227)

\* the first bytes of the DER encodings (SubjectPublicKeyInfo, PKCS#8)
SpkiHeader == <<48, 130, 1, 34>>

Pkcs8Header == <<48, 130, 4, 190>>

\* The RSA permutation under a public key, and its inverse under the private
\* key of the same pair.  The key material stands for the modulus the two
\* keys of a pair share.
RsaPublic(material, em) == [i \in 1..Len(em) |-> (em[i] + material[1]) % 256]

RsaPrivate(material, c) == [i \in 1..Len(c) |-> (c[i] + 256 - material[1]) % 256]

\* EME-OAEP: 00 || seed || lHash || 00 .. 00 || 01 || message, as long as the
\* modulus
OaepEncode(message, seed) ==
    <<0>> \o seed \o LabelHash
    \o Fill(ModulusBytes - Len(message) - 2 * HashBytes - 2, 0)
    \o <<1>> \o message

\* the place of the first byte at or after `from` that is not 0, Len(em) + 1
\* if there is none
FirstNonZero(em, from) ==
    IF \E i \in from..Len(em) : em[i] # 0
    THEN CHOOSE i \in from..Len(em) :
            em[i] # 0 /\ \A j \in from..(i - 1) : em[j] = 0
    ELSE Len(em) + 1

OaepValid(em) ==
    LET sep == FirstNonZero(em, 2 * HashBytes + 2)
    IN  /\ Len(em) = ModulusBytes
        /\ em[1] = 0
        /\ SubSeq(em, HashBytes + 2, 2 * HashBytes + 1) = LabelHash
        /\ sep <= Len(em)
        /\ em[sep] = 1

OaepDecode(em) == SubSeq(em, FirstNonZero(em, 2 * HashBytes + 2) + 1, Len(em))

\* subtle.generateKey({name: "RSA-OAEP", modulusLength, ...}, extractable,
\* usages), with the key material it draws: the public key keeps the usages
\* among encrypt and wrapKey, the private key those among decrypt and unwrapKey
SubtleGenerateRsaKey(modulusLength, extractable, usages, material) ==
    IF usages \cap {"decrypt", "unwrapKey"} = {} THEN Throw("SyntaxError")
    ELSE Ok([publicKey |-> CryptoKey("public", "RSA-OAEP", modulusLength, TRUE,
                                     usages \cap {"encrypt", "wrapKey"}, material),
             privateKey |-> CryptoKey("private", "RSA-OAEP", modulusLength, extractable,
                                      usages \cap {"decrypt", "unwrapKey"}, material)])

\* subtle.exportKey("spki", key)
SubtleExportSpki(key) ==
    IF ~key.extractable THEN Throw("InvalidAccessError")
    ELSE IF key.type # "public" THEN Throw("InvalidAccessError")
    ELSE Ok(SpkiHeader \o key.material)

\* subtle.exportKey("pkcs8", key)
SubtleExportPkcs8(key) ==
    IF ~key.extractable THEN Throw("InvalidAccessError")
    ELSE IF key.type # "private" THEN Throw("InvalidAccessError")
    ELSE Ok(Pkcs8Header \o key.material)

\* subtle.importKey("spki", keyData, {name: "RSA-OAEP", hash}, extractable, usages)
SubtleImportSpki(keyData, extractable, usages) ==
    IF ~(usages \subseteq {"encrypt", "wrapKey"}) THEN Throw("SyntaxError")
    ELSE IF Len(keyData) # Len(SpkiHeader) + 1
            \/ SubSeq(keyData, 1, Len(SpkiHeader)) # SpkiHeader
    THEN Throw("DataError")
    ELSE Ok(CryptoKey("public", "RSA-OAEP", ModulusLength, extractable, usages,
                      SubSeq(keyData, Len(SpkiHeader) + 1, Len(keyData))))

\* subtle.importKey("pkcs8", keyData, {name: "RSA-OAEP", hash}, extractable, usages)
SubtleImportPkcs8(keyData, extractable, usages) ==
    IF ~(usages \subseteq {"decrypt", "unwrapKey"}) THEN Throw("SyntaxError")
    ELSE IF Len(keyData) # Len(Pkcs8Header) + 1
            \/ SubSeq(keyData, 1, Len(Pkcs8Header)) # Pkcs8Header
    THEN Throw("DataError")
    ELSE Ok(CryptoKey("private", "RSA-OAEP", ModulusLength, extractable, usages,
                      SubSeq(keyData, Len(Pkcs8Header) + 1, Len(keyData))))

\* subtle.encrypt({name: "RSA-OAEP"}, key, data), with the seed OAEP draws
SubtleEncryptRsaOaep(key, data, seed) ==
    IF key.name # "RSA-OAEP" \/ "encrypt" \notin key.usages
    THEN Throw("InvalidAccessError")
    ELSE IF Len(data) > MaxOaepPayload THEN Throw("OperationError")
    ELSE Ok(RsaPublic(key.material, OaepEncode(data, seed)))

\* subtle.decrypt({name: "RSA-OAEP"}, key, data)
SubtleDecryptRsaOaep(key, data) ==
    IF key.name # "RSA-OAEP" \/ "decrypt" \notin key.usages
    THEN Throw("InvalidAccessError")
    ELSE IF Len(data) # ModulusBytes THEN Throw("OperationError")
    ELSE LET em == RsaPrivate(key.material, data)
         IN  IF OaepValid(em) THEN Ok(OaepDecode(em)) ELSE Throw("OperationError")

(***************************************************************************)
(* RSA keys                                                                *)
(***************************************************************************)
\* generateRsaKeyPair(), with the key material the generator draws
generateRsaKeyPair(material) ==
    SubtleGenerateRsaKey(ModulusLength, TRUE, {"encrypt", "decrypt"}, material)

exportPubKey(key) ==
    LET spki == SubtleExportSpki(key)
    IN  IF spki.ok THEN Ok(arrayBufferToBase64(spki.val)) ELSE spki

\* an export that does not look at whether a key was given
exportPrvKey_NoNullCheck(key) ==
    IF key = NullKey THEN Throw("TypeError")
    ELSE LET pkcs8 == SubtleExportPkcs8(key)
         IN  IF pkcs8.ok THEN Ok(arrayBufferToBase64(pkcs8.val)) ELSE pkcs8

\* key ? arrayBufferToBase64(await exportKey("pkcs8", key)) : null
exportPrvKey(key) ==
    IF key # NullKey
    THEN LET pkcs8 == SubtleExportPkcs8(key)
         IN  IF pkcs8.ok THEN Ok(arrayBufferToBase64(pkcs8.val)) ELSE pkcs8
    ELSE Absent

importPubKey(strKey) == SubtleImportSpki(base64ToArrayBuffer(strKey), TRUE, {"encrypt"})

\* an import of private keys copied from importPubKey and left as it was
importPrvKey_AsPublic(strKey) ==
    SubtleImportSpki(base64ToArrayBuffer(strKey), TRUE, {"encrypt"})

importPrvKey(strKey) == SubtleImportPkcs8(base64ToArrayBuffer(strKey), TRUE, {"decrypt"})

\* the character code of a base64 character
CharCode(c) ==
    LET v == unbase64(c)
    IN  IF c = "=" THEN 61
        ELSE IF v < 26 THEN 65 + v
        ELSE IF v < 52 THEN 71 + v
        ELSE IF v < 62 THEN v - 4
        ELSE IF v = 62 THEN 43 ELSE 47

\* an encryption of the characters of b64Data, not of the bytes they encode
rsaEncrypt_NoDecode(b64Data, strPublicKey, seed) ==
    LET dataBuffer == [i \in 1..Len(b64Data) |-> CharCode(b64Data[i])]
        publicKey == importPubKey(strPublicKey)
    IN  IF ~publicKey.ok THEN publicKey
        ELSE LET enc == SubtleEncryptRsaOaep(publicKey.val, dataBuffer, seed)
             IN  IF enc.ok THEN Ok(arrayBufferToBase64(enc.val)) ELSE enc

rsaEncrypt(b64Data, strPublicKey, seed) ==
    LET dataBuffer == base64ToArrayBuffer(b64Data)
        publicKey == importPubKey(strPublicKey)
    IN  IF ~publicKey.ok THEN publicKey
        ELSE LET enc == SubtleEncryptRsaOaep(publicKey.val, dataBuffer, seed)
             IN  IF enc.ok THEN Ok(arrayBufferToBase64(enc.val)) ELSE enc

rsaDecrypt(data, privateKey) ==
    LET dataBuffer == base64ToArrayBuffer(data)
        dec == SubtleDecryptRsaOaep(privateKey, dataBuffer)
    IN  IF dec.ok THEN Ok(arrayBufferToBase64(dec.val)) ELSE dec

(***************************************************************************)
(* Symmetric keys                                                          *)
(***************************************************************************)
\* createRandomSymmetricKey(), with the key bytes the generator draws
createRandomSymmetricKey(material) ==
    SubtleGenerateAesKey(AesKeyLength, TRUE, {"encrypt", "decrypt"}, material)

exportSymKey(key) ==
    LET raw == SubtleExportRaw(key)
    IN  IF raw.ok THEN Ok(arrayBufferToBase64(raw.val)) ELSE raw

importSymKey(strKey) ==
    SubtleImportRaw(base64ToArrayBuffer(strKey), TRUE, {"encrypt", "decrypt"})

\* symEncrypt in a process whose module-level IV is moduleIv
symEncrypt(moduleIv, key, data) ==
    LET enc == SubtleEncryptAesCbc(moduleIv, key, TextEncode(data))
    IN  IF enc.ok THEN Ok(arrayBufferToBase64(enc.val)) ELSE enc

\* symDecrypt in a process whose module-level IV is moduleIv
symDecrypt(moduleIv, strKey, encryptedData) ==
    LET key == importSymKey(strKey)
    IN  IF ~key.ok THEN key
        ELSE LET dec == SubtleDecryptAesCbc(moduleIv, key.val,
                                            base64ToArrayBuffer(encryptedData))
             IN  IF dec.ok THEN Ok(TextDecode(dec.val)) ELSE dec

(***************************************************************************)
(* The state: each process that loads the module draws its IV once (the    *)
(* const of line 3); `wire` is the last message an encoding or encrypting  *)
(* call produced, with the call that produced it; `last` is the last call, *)
(* its arguments, the wire it could read and its result.                   *)
(***************************************************************************)
Procs == {"p1", "p2"}

\* values webcrypto.getRandomValues(new Uint8Array(16)) may return
IvSamples == {[i \in 1..IvLength |-> i], Fill(IvLength, 165)}

NoWire ==
    [kind |-> "none", proc |-> "-", iv |-> <<>>, key |-> NullKey,
     data |-> <<>>, out |-> <<>>]

Wire(kind, proc, ivUsed, key, data, out) ==
    [kind |-> kind, proc |-> proc, iv |-> ivUsed, key |-> key,
     data |-> data, out |-> out]

Call(op, proc, a, b, w, ret) ==
    [op |-> op, proc |-> proc, a |-> a, b |-> b, w |-> w, ret |-> ret]

NoCall == Call("none", "-", <<>>, <<>>, NoWire, Absent)

Init ==
    /\ iv \in [Procs -> IvSamples]
    /\ wire = NoWire
    /\ last = NoCall

(***************************************************************************)
(* Inputs                                                                  *)
(***************************************************************************)
MaxBytesLen == 3

SampleBytes == {0, 77, 255}

ByteSeqs == SeqsUpTo(SampleBytes, MaxBytesLen)

\* texts that are not standard base64: a character outside the alphabet, a
\* length that is no multiple of four, padding in the middle
BadBase64 ==
    { <<"*">>, <<"T", "Q", "*", "=">>, <<"T", "Q">>, <<"T", "Q", "=">>,
      <<"T", "=", "Q", "=">>, <<"T", "Q", " ", "=", "=">>, <<"_", "-", "8", "=">> }

\* key bytes crypto's generator may draw for a 256-bit key
AesMaterials ==
    { Fill(32, 7), [i \in 1..32 |-> IF i = 1 THEN 9 ELSE 7] }

GeneratedSymKeys == {createRandomSymmetricKey(m).val : m \in AesMaterials}

\* key texts a caller may hold: exported keys, one with a character outside
\* the alphabet, one without its padding, and raw keys of other lengths
SymKeyStrings ==
    LET exported == {exportSymKey(k).val : k \in GeneratedSymKeys}
        one == exportSymKey(createRandomSymmetricKey(Fill(32, 7)).val).val
    IN  exported
        \cup {<<"*">> \o one, SubSeq(one, 1, Len(one) - 1)}
        \cup {arrayBufferToBase64(Fill(n, 1)) : n \in {0, 16, 24, 31, 33}}

\* the handles a caller may hold
SymHandles ==
    GeneratedSymKeys \cup {importSymKey(arrayBufferToBase64(Fill(16, 1))).val}

\* the key texts handed to symDecrypt: the exported keys, and one of them with
\* a character outside the alphabet
DecryptKeyStrings ==
    LET exported == {exportSymKey(k).val : k \in GeneratedSymKeys}
    IN  exported \cup {<<"*">> \o exportSymKey(createRandomSymmetricKey(Fill(32, 7)).val).val}

\* key material the generator may draw for a pair
RsaMaterials == {<<3>>, <<5>>}

GeneratedPairs == {generateRsaKeyPair(m).val : m \in RsaMaterials}

PublicKeys == {pair.publicKey : pair \in GeneratedPairs}

PrivateKeys == {pair.privateKey : pair \in GeneratedPairs}

\* every handle a caller may hold, and the null it may pass for a private key
KeyHandles == PublicKeys \cup PrivateKeys \cup SymHandles

\* every key text a caller may hold: exported keys of the three kinds, one
\* with a character outside the alphabet, and the empty text
KeyStrings ==
    LET spki == {exportPubKey(k).val : k \in PublicKeys}
    IN  spki
        \cup {<<"*">> \o x : x \in spki}
        \cup {exportPrvKey(k).val : k \in PrivateKeys}
        \cup SymKeyStrings

\* the public key texts handed to rsaEncrypt: exported public keys, and an
\* exported private key
EncryptKeyStrings ==
    {exportPubKey(k).val : k \in PublicKeys}
    \cup {exportPrvKey(generateRsaKeyPair(<<3>>).val.privateKey).val}

\* the handles handed to rsaDecrypt: the private keys, and a public key
DecryptHandles == PrivateKeys \cup {generateRsaKeyPair(<<3>>).val.publicKey}

\* seeds OAEP may draw
Seeds == {Fill(HashBytes, 17), Fill(HashBytes, 200)}

\* the payloads handed to rsaEncrypt, in base64: nothing, "Hello", and
\* payloads of the longest length OAEP takes and of one byte more
Payloads ==
    { <<>>,
      <<"S", "G", "V", "s", "b", "G", "8", "=">>,
      arrayBufferToBase64(Fill(MaxOaepPayload, 65)),
      arrayBufferToBase64(Fill(MaxOaepPayload + 1, 65)) }

\* the longest text handed to symEncrypt: one cipher block
MaxTextLen == 16

Ascii(n) == Fill(n, 97)

\* "", "a", a surrogate pair, a text that begins with U+FEFF, an unpaired
\* surrogate, and the longest text and the one a character shorter
Texts ==
    { <<>>, <<97>>, <<55357, 56832>>, <<65279, 97>>, <<55357>>,
      Ascii(MaxTextLen - 1), Ascii(MaxTextLen) }

\* what a caller may hand to a decrypting call: the message on the wire, the
\* same with a character outside the alphabet, or nothing
Received ==
    IF wire.kind \in {"sym", "rsa"}
    THEN {wire.out, <<"*">> \o wire.out}
    ELSE {<<>>}

(***************************************************************************)
(* Actions: the codec                                                      *)
(***************************************************************************)
ArrayBufferToBase64(buffer) ==
    LET text == arrayBufferToBase64(buffer)
    IN  /\ wire' = Wire("b64", "-", <<>>, NullKey, buffer, text)
        /\ last' = Call("arrayBufferToBase64", "-", buffer, <<>>, NoWire, Ok(text))
        /\ UNCHANGED iv

Base64ToArrayBuffer(base64) ==
    /\ last' = Call("base64ToArrayBuffer", "-", base64, <<>>, wire,
                    Ok(base64ToArrayBuffer(base64)))
    /\ UNCHANGED <<iv, wire>>

CodecNext ==
    \/ \E buffer \in ByteSeqs : ArrayBufferToBase64(buffer)
    \/ \E base64 \in (IF wire.kind = "b64" THEN {wire.out} ELSE {}) \cup BadBase64 :
          Base64ToArrayBuffer(base64)

SpecCodec == Init /\ [][CodecNext]_vars

(***************************************************************************)
(* Actions: symmetric keys                                                 *)
(***************************************************************************)
CreateRandomSymmetricKey(material) ==
    /\ last' = Call("createRandomSymmetricKey", "-", <<>>, <<>>, NoWire,
                    createRandomSymmetricKey(material))
    /\ UNCHANGED <<iv, wire>>

ExportSymKey(key) ==
    /\ last' = Call("exportSymKey", "-", key, <<>>, NoWire, exportSymKey(key))
    /\ UNCHANGED <<iv, wire>>

ImportSymKey(strKey) ==
    /\ last' = Call("importSymKey", "-", strKey, <<>>, NoWire, importSymKey(strKey))
    /\ UNCHANGED <<iv, wire>>

SymEncrypt(p, key, data) ==
    LET ret == symEncrypt(iv[p], key, data)
    IN  /\ last' = Call("symEncrypt", p, key, data, NoWire, ret)
        /\ wire' = IF ret.ok THEN Wire("sym", p, iv[p], key, data, ret.val) ELSE wire
        /\ UNCHANGED iv

SymDecrypt(p, strKey, encryptedData) ==
    /\ last' = Call("symDecrypt", p, strKey, encryptedData, wire,
                    symDecrypt(iv[p], strKey, encryptedData))
    /\ UNCHANGED <<iv, wire>>

(***************************************************************************)
(* Actions: RSA keys                                                       *)
(***************************************************************************)
GenerateRsaKeyPair(material) ==
    /\ last' = Call("generateRsaKeyPair", "-", <<>>, <<>>, NoWire,
                    generateRsaKeyPair(material))
    /\ UNCHANGED <<iv, wire>>

ExportPubKey(key) ==
    /\ last' = Call("exportPubKey", "-", key, <<>>, NoWire, exportPubKey(key))
    /\ UNCHANGED <<iv, wire>>

ExportPrvKey(key) ==
    /\ last' = Call("exportPrvKey", "-", key, <<>>, NoWire, exportPrvKey(key))
    /\ UNCHANGED <<iv, wire>>

ImportPubKey(strKey) ==
    /\ last' = Call("importPubKey", "-", strKey, <<>>, NoWire, importPubKey(strKey))
    /\ UNCHANGED <<iv, wire>>

ImportPrvKey(strKey) ==
    /\ last' = Call("importPrvKey", "-", strKey, <<>>, NoWire, importPrvKey(strKey))
    /\ UNCHANGED <<iv, wire>>

RsaEncrypt(b64Data, strPublicKey, seed) ==
    LET ret == rsaEncrypt(b64Data, strPublicKey, seed)
    IN  /\ last' = Call("rsaEncrypt", "-", b64Data, strPublicKey, NoWire, ret)
        /\ wire' = IF ret.ok
                   THEN Wire("rsa", "-", seed, importPubKey(strPublicKey).val,
                             b64Data, ret.val)
                   ELSE wire
        /\ UNCHANGED iv

RsaDecrypt(data, privateKey) ==
    /\ last' = Call("rsaDecrypt", "-", data, privateKey, wire,
                    rsaDecrypt(data, privateKey))
    /\ UNCHANGED <<iv, wire>>

(***************************************************************************)
(* Specifications: the key operations, the symmetric cipher, the           *)
(* asymmetric cipher.  SpecCodec above is the codec.                       *)
(***************************************************************************)
KeysNext ==
    \/ \E material \in RsaMaterials : GenerateRsaKeyPair(material)
    \/ \E key \in KeyHandles : ExportPubKey(key)
    \/ \E key \in KeyHandles \cup {NullKey} : ExportPrvKey(key)
    \/ \E strKey \in KeyStrings : ImportPubKey(strKey)
    \/ \E strKey \in KeyStrings : ImportPrvKey(strKey)
    \/ \E material \in AesMaterials : CreateRandomSymmetricKey(material)
    \/ \E key \in KeyHandles : ExportSymKey(key)
    \/ \E strKey \in KeyStrings : ImportSymKey(strKey)

SymNext ==
    \/ \E p \in Procs, key \in GeneratedSymKeys, data \in Texts :
          SymEncrypt(p, key, data)
    \/ \E p \in Procs, strKey \in DecryptKeyStrings, encryptedData \in Received :
          SymDecrypt(p, strKey, encryptedData)

RsaNext ==
    \/ \E b64Data \in Payloads, strPublicKey \in EncryptKeyStrings, seed \in Seeds :
          RsaEncrypt(b64Data, strPublicKey, seed)
    \/ \E data \in Received, privateKey \in DecryptHandles :
          RsaDecrypt(data, privateKey)

SpecKeys == Init /\ [][KeysNext]_vars

SpecSym == Init /\ [][SymNext]_vars

SpecRsa == Init /\ [][RsaNext]_vars

(***************************************************************************)
(* The claims                                                              *)
(***************************************************************************)
\* a symDecrypt call given the message on the wire and the exported key the
\* message was encrypted under
DecryptsTheWire ==
    /\ last.op = "symDecrypt"
    /\ last.w.kind = "sym"
    /\ last.b = last.w.out
    /\ exportSymKey(last.w.key) = Ok(last.a)

\* a text that TextDecoder gives back as TextEncoder was given it
SurvivesUtf8(s) == TextDecode(TextEncode(s)) = s

\* C1: any two symEncrypt calls of one process use distinct IVs, so the same
\* plaintext encrypted twice under the same key gives two different
\* ciphertexts.  Stated of a symEncrypt call that follows another one of the
\* same process, whose message is still on the wire.
C1_FreshIvPerEncryption ==
    [][(/\ last'.op = "symEncrypt"
        /\ last'.ret.ok
        /\ wire.kind = "sym"
        /\ wire.proc = last'.proc)
       => (/\ wire'.iv # wire.iv
           /\ (wire'.key = wire.key /\ wire'.data = wire.data
                  => wire'.out # wire.out))]_vars

\* C2: symDecrypt recovers the plaintext from the exported key and the output
\* of symEncrypt alone, in whichever process it runs, whatever that process's
\* own module-level IV.
C2_IvTravelsWithCiphertext ==
    (DecryptsTheWire /\ SurvivesUtf8(last.w.data))
        => last.ret = Ok(last.w.data)

\* C3: for every well-formed text s and every generated key k,
\* symDecrypt(exportSymKey(k), symEncrypt(k, s)) = s in the process that
\* encrypted, whatever was called in between.
C3_SymmetricRoundTrip ==
    (/\ DecryptsTheWire
     /\ last.proc = last.w.proc
     /\ last.w.key \in GeneratedSymKeys
     /\ WellFormed(last.w.data))
        => last.ret = Ok(last.w.data)

\* The round trip of C3 for the well-formed texts that do not begin with
\* U+FEFF.
SymmetricRoundTripWithoutBom ==
    (/\ DecryptsTheWire
     /\ last.proc = last.w.proc
     /\ WellFormed(last.w.data)
     /\ (Len(last.w.data) = 0 \/ <<last.w.data[1]>> # ByteOrderMark))
        => last.ret = Ok(last.w.data)

\* an rsaDecrypt call given the message on the wire and the private key paired
\* with the public key the message was encrypted under
DecryptsWithPairedKey ==
    /\ last.op = "rsaDecrypt"
    /\ last.w.kind = "rsa"
    /\ last.a = last.w.out
    /\ \E pair \in GeneratedPairs :
          /\ last.b = pair.privateKey
          /\ importPubKey(exportPubKey(pair.publicKey).val) = Ok(last.w.key)

\* C4: for every payload p of at most 190 bytes and every generated pair,
\* rsaEncrypt(p, exportPubKey(pub)) succeeds and rsaDecrypt of its result under
\* priv gives p back, in base64.
C4_AsymmetricRoundTrip ==
    /\ (/\ last.op = "rsaEncrypt"
        /\ last.b \in {exportPubKey(k).val : k \in PublicKeys}
        /\ Len(base64ToArrayBuffer(last.a)) <= 190)
           => last.ret.ok
    /\ DecryptsWithPairedKey
           => /\ last.ret.ok
              /\ base64ToArrayBuffer(last.ret.val) = base64ToArrayBuffer(last.w.data)
              /\ last.ret.val = arrayBufferToBase64(base64ToArrayBuffer(last.w.data))

\* a payload of exactly 190 bytes went through the round trip
C4_Witness ==
    /\ DecryptsWithPairedKey
    /\ Len(base64ToArrayBuffer(last.w.data)) = 190
    /\ last.ret = Ok(last.w.data)

\* C5: base64ToArrayBuffer(arrayBufferToBase64(b)) = b for every byte sequence
\* b, the empty one included, and arrayBufferToBase64 never fails: it returns
\* standard base64 with padding.
C5_CodecRoundTrip ==
    /\ (last.op = "base64ToArrayBuffer" /\ last.w.kind = "b64" /\ last.a = last.w.out)
           => last.ret = Ok(last.w.data)
    /\ last.op = "arrayBufferToBase64"
           => last.ret.ok /\ ValidBase64(last.ret.val)

\* a one-byte buffer, encoded with two "=", was decoded back
C5_Witness ==
    /\ last.op = "base64ToArrayBuffer"
    /\ last.w.kind = "b64"
    /\ last.a = last.w.out
    /\ last.w.data = <<255>>
    /\ last.ret = Ok(<<255>>)

\* symDecrypt of the message on the wire under a key that is not the key the
\* message was encrypted under fails with OperationError
SymWrongKeyFails ==
    (/\ last.op = "symDecrypt"
     /\ last.w.kind = "sym"
     /\ last.b = last.w.out
     /\ importSymKey(last.a).ok
     /\ importSymKey(last.a).val.material # last.w.key.material)
        => last.ret = Throw("OperationError")

\* rsaDecrypt of the message on the wire under the private key of another pair
\* fails with OperationError
RsaWrongKeyFails ==
    (/\ last.op = "rsaDecrypt"
     /\ last.w.kind = "rsa"
     /\ last.a = last.w.out
     /\ last.b \in PrivateKeys
     /\ last.b.material # last.w.key.material)
        => last.ret = Throw("OperationError")

\* C6: decrypting with a key that does not match the encrypting key always
\* fails with OperationError and never returns a plaintext, for rsaDecrypt and
\* for symDecrypt.
C6_WrongKeyFails == SymWrongKeyFails /\ RsaWrongKeyFails

\* C7: decoding a text that is not valid base64 fails with EncodingError, and
\* so does every operation given such a text.
C7_InvalidBase64Rejected ==
    /\ (last.op = "base64ToArrayBuffer" /\ ~ValidBase64(last.a))
           => last.ret = Throw("EncodingError")
    /\ (/\ last.op \in {"importPubKey", "importPrvKey", "importSymKey", "rsaDecrypt"}
        /\ ~ValidBase64(last.a))
           => ~last.ret.ok
    /\ (last.op = "rsaEncrypt" /\ (~ValidBase64(last.a) \/ ~ValidBase64(last.b)))
           => ~last.ret.ok
    /\ (last.op = "symDecrypt" /\ (~ValidBase64(last.a) \/ ~ValidBase64(last.b)))
           => ~last.ret.ok

\* C8 as stated: importSymKey fails with DataError whenever the decoded key is
\* not 32 bytes long.
C8_Only32Bytes ==
    (last.op = "importSymKey" /\ Len(base64ToArrayBuffer(last.a)) # 32)
        => last.ret = Throw("DataError")

\* C8, amended: importSymKey fails with DataError whenever the decoded key is
\* not 16, 24 or 32 bytes long, and returns a secret key of that length when
\* it is.
C8_AesKeySizes ==
    last.op = "importSymKey" =>
        LET raw == base64ToArrayBuffer(last.a)
        IN  IF Len(raw) \in {16, 24, 32}
            THEN /\ last.ret.ok
                 /\ last.ret.val.type = "secret"
                 /\ last.ret.val.length = 8 * Len(raw)
                 /\ last.ret.val.material = raw
            ELSE last.ret = Throw("DataError")

\* a key of 31 bytes was refused
C8_Witness ==
    /\ last.op = "importSymKey"
    /\ Len(base64ToArrayBuffer(last.a)) = 31
    /\ last.ret = Throw("DataError")

\* C9: exportPrvKey(null) returns null and raises nothing; exportPrvKey of a
\* private key returns a base64 text, never null.
C9_ExportPrvKeyAbsent ==
    last.op = "exportPrvKey" =>
        /\ last.a = NullKey => last.ret = Absent
        /\ last.a.type = "private" =>
              /\ last.ret.ok
              /\ ~last.ret.absent
              /\ Len(last.ret.val) > 0
              /\ ValidBase64(last.ret.val)

\* exportPrvKey was called with null and returned null
C9_Witness ==
    /\ last.op = "exportPrvKey"
    /\ last.a = NullKey
    /\ last.ret = Absent

\* the handle a key text was exported from comes back from the import with
\* its type and usages
RolePreserved(k, exported) ==
    (exported.ok /\ exported.val = last.a)
        => last.ret.ok /\ last.ret.val.type = k.type /\ last.ret.val.usages = k.usages

\* C10: a public key (generated or imported) can encrypt only, a private key
\* (generated or imported) can decrypt only, a symmetric key can do both, and
\* an export followed by an import gives a key of the same role.
C10_KeyRoles ==
    /\ (last.op = "generateRsaKeyPair" /\ last.ret.ok) =>
          /\ last.ret.val.publicKey.type = "public"
          /\ last.ret.val.publicKey.usages = {"encrypt"}
          /\ last.ret.val.privateKey.type = "private"
          /\ last.ret.val.privateKey.usages = {"decrypt"}
    /\ (last.op = "importPubKey" /\ last.ret.ok) =>
          last.ret.val.type = "public" /\ last.ret.val.usages = {"encrypt"}
    /\ (last.op = "importPrvKey" /\ last.ret.ok) =>
          last.ret.val.type = "private" /\ last.ret.val.usages = {"decrypt"}
    /\ (last.op \in {"createRandomSymmetricKey", "importSymKey"} /\ last.ret.ok) =>
          last.ret.val.type = "secret" /\ last.ret.val.usages = {"encrypt", "decrypt"}
    /\ last.op = "importPubKey" =>
          \A pair \in GeneratedPairs : RolePreserved(pair.publicKey, exportPubKey(pair.publicKey))
    /\ last.op = "importPrvKey" =>
          \A pair \in GeneratedPairs : RolePreserved(pair.privateKey, exportPrvKey(pair.privateKey))
    /\ last.op = "importSymKey" =>
          \A k \in GeneratedSymKeys : RolePreserved(k, exportSymKey(k))

\* the private key of a generated pair was exported and imported again
C10_Witness ==
    /\ last.op = "importPrvKey"
    /\ last.ret.ok
    /\ \E pair \in GeneratedPairs :
          /\ exportPrvKey(pair.privateKey).val = last.a
          /\ last.ret.val = pair.privateKey

====
